---- MODULE Spec2Model ----
(***************************************************************************)
(* Model of the bolt mev-boost constraints cache (ConstraintsCache over a  *)
(* hashicorp/golang-lru cache of per-slot transaction maps), of the        *)
(* HexBytes JSON codec and of the VersionedSignedBuilderBidWithProofs JSON *)
(* codec.                                                                  *)
(***************************************************************************)
EXTENDS Integers, Sequences, FiniteSets, TLC

\* ------------------------------------------------------------------ bounds
MaxCap == 2        \* largest capacity handed to NewConstraintsCache
MaxSlot == 3       \* slots are 1..MaxSlot
MaxTx == 1         \* distinct transactions (by hash) are 1..MaxTx
MaxTxs == 2        \* longest transaction list handed to one call
NProcs == 2        \* goroutines calling into the shared cache
MaxConcSlot == 2   \* slots the concurrent callers use are 1..MaxConcSlot
MaxConcTxs == 1    \* longest transaction list of a concurrent caller
MaxHexLen == 6     \* longest input handed to HexBytes.UnmarshalJSON
MaxMsg == 1        \* bid messages are 1..MaxMsg
MaxSig == 1        \* signatures are 0..MaxSig, 0 the all-zero one
MaxMerkle == 1     \* longest merkle_hashes list of a proof

\* ------------------------------------------------------------ cache state
VARIABLES
  cap,           \* capacity given to NewConstraintsCache
  constraints,   \* the lru cache: sequence of [key, value], most recent first
  heap,          \* Go heap of TransactionHashMap objects: id -> (hash -> bytes)
  halted,        \* TRUE once a panic or a runtime fault took the process down
  last,          \* the call that completed last, with its arguments and results
  frames,        \* per goroutine: where its call on the shared cache stands
  hexIn,         \* HexBytes.UnmarshalJSON: the input bytes
  hexH,          \* HexBytes.UnmarshalJSON: the target *h
  hexErr         \* HexBytes.UnmarshalJSON: "none" before the call, then the error ("nil" for none)

hexVars == <<hexIn, hexH, hexErr>>

VARIABLES
  bidVariant,    \* which of the file's two versions of the bid codec runs
  bidEnv,        \* the envelope handed to MarshalJSON
  bidWire,       \* MarshalJSON's output bytes, if any
  bidEncErr,     \* "none" before MarshalJSON ran, then its error ("nil" for none)
  bidData,       \* the payload handed to UnmarshalJSON
  bidOut,        \* the envelope UnmarshalJSON decoded into
  bidErr         \* "none" before UnmarshalJSON ran, then its error ("nil" for none)

bidVars == <<bidVariant, bidEnv, bidWire, bidEncErr, bidData, bidOut, bidErr>>

\* --------------------------------------------------------------- HexBytes
\* Inputs are byte strings over a small alphabet: the quote, the two
\* characters of the 0x prefix, a hex digit that is a letter and a letter
\* that is no hex digit.
Quote == "\""

HexAlphabet == {Quote, "0", "x", "a", "g"}

\* What *h holds before UnmarshalJSON is called on it.
HexPrior == <<255>>

IsHexDigit(ch) == ch \in {"0", "a"}

\* encoding/hex's reverseHexTable on the digits of the alphabet.
HexValue(ch) == IF ch = "a" THEN 10 ELSE 0

HasPrefix(s, pre) == Len(s) >= Len(pre) /\ SubSeq(s, 1, Len(pre)) = pre

HasSuffix(s, suf) == Len(s) >= Len(suf) /\ SubSeq(s, Len(s) - Len(suf) + 1, Len(s)) = suf

\* strings.TrimPrefix
TrimPrefix(s, pre) == IF HasPrefix(s, pre) THEN SubSeq(s, Len(pre) + 1, Len(s)) ELSE s

\* json.Unmarshal(input, &data) for a string target, its error dropped: the
\* characters between the quotes when the input is one JSON string literal,
\* else data keeps its zero value "".
JsonStringOrEmpty(input) ==
  IF /\ Len(input) >= 2
     /\ input[1] = Quote
     /\ input[Len(input)] = Quote
     /\ \A i \in 2..(Len(input) - 1) : input[i] # Quote
    THEN SubSeq(input, 2, Len(input) - 1)
    ELSE <<>>

\* hex.DecodeString with its error dropped: the bytes of the digit pairs up
\* to the first pair that is not two hex digits (a trailing single character
\* decodes to nothing).
RECURSIVE HexDecode(_)
HexDecode(s) ==
  IF Len(s) < 2 THEN <<>>
  ELSE IF IsHexDigit(s[1]) /\ IsHexDigit(s[2])
         THEN <<16 * HexValue(s[1]) + HexValue(s[2])>> \o HexDecode(SubSeq(s, 3, Len(s)))
         ELSE <<>>

\* The same decoder without the closing-quote check.
HexUnmarshalNoSuffixCheck(input, h) ==
  IF Len(input) = 0 THEN [err |-> "input missing", h |-> h]
  ELSE IF ~HasPrefix(input, <<Quote, "0", "x">>) THEN [err |-> "invalid prefix", h |-> h]
  ELSE [err |-> "nil",
        h |-> HexDecode(TrimPrefix(JsonStringOrEmpty(input), <<"0", "x">>))]

\* HexBytes.UnmarshalJSON on input with *h = h: the error and *h afterwards.
HexUnmarshal(input, h) ==
  IF Len(input) = 0 THEN [err |-> "input missing", h |-> h]
  ELSE IF ~HasPrefix(input, <<Quote, "0", "x">>) THEN [err |-> "invalid prefix", h |-> h]
  ELSE IF ~HasSuffix(input, <<Quote>>) THEN [err |-> "invalid suffix", h |-> h]
  ELSE [err |-> "nil",
        h |-> HexDecode(TrimPrefix(JsonStringOrEmpty(input), <<"0", "x">>))]

\* fmt's %x on the two digit values the alphabet has.
HexChar(d) == IF d = 10 THEN "a" ELSE "0"

\* HexBytes.MarshalJSON, `"%#x"`: fmt writes nothing at all for an empty
\* slice, not even the 0x, so the empty array encodes as two quotes.
RECURSIVE HexDigits(_)
HexDigits(h) ==
  IF Len(h) = 0 THEN <<>>
  ELSE <<HexChar(h[1] \div 16), HexChar(h[1] % 16)>> \o HexDigits(Tail(h))

HexMarshal(h) ==
  IF Len(h) = 0 THEN <<Quote, Quote>>
  ELSE <<Quote, "0", "x">> \o HexDigits(h) \o <<Quote>>

\* ------------------------------------ VersionedSignedBuilderBidWithProofs
\* A pointer is the empty sequence (nil) or a one-element sequence.
None == <<>>

Some(x) == <<x>>

Forks == {"bellatrix", "capella", "deneb"}

\* consensusSpec.DataVersion; "unknown" is its zero value.
ZeroVersion == "unknown"

DataVersions == {ZeroVersion, "phase0", "altair"} \cup Forks

\* The versions each of the file's two codecs has a case for.
Supported(variant) == IF variant = "earlier" THEN Forks ELSE {"deneb"}

\* &builderSpec.VersionedSignedBuilderBid{}
EmptyBid == [Version |-> ZeroVersion, Bellatrix |-> None, Capella |-> None, Deneb |-> None]

\* var v VersionedSignedBuilderBidWithProofs
FreshEnvelope == [bid |-> None, Proofs |-> None]

\* The signed bid of the given fork inside b, a pointer.
ForkBid(b, fork) ==
  IF fork = "bellatrix" THEN b.Bellatrix
  ELSE IF fork = "capella" THEN b.Capella
  ELSE b.Deneb

WithForkBid(b, fork, sb) ==
  IF fork = "bellatrix" THEN [b EXCEPT !.Bellatrix = sb]
  ELSE IF fork = "capella" THEN [b EXCEPT !.Capella = sb]
  ELSE [b EXCEPT !.Deneb = sb]

\* JSON values, as syntax trees: objects are records of their fields.
JNull == [t |-> "null"]

MessageJson(fork, msg) ==
  IF msg = None THEN JNull ELSE [t |-> "message", fork |-> fork, v |-> msg[1]]

SignatureJson(sig) == [t |-> "signature", v |-> sig]

\* json.Marshal of *InclusionProof: null for nil; each merkle hash is null
\* for a nil pointer, else what HexBytes.MarshalJSON writes.
ProofsJson(proofs) ==
  IF proofs = None THEN JNull
  ELSE LET pr == proofs[1]
       IN [t |-> "proofs",
           transaction_hashes |-> pr.TransactionHashes,
           generalized_indexes |-> pr.GeneralizedIndexes,
           merkle_hashes |-> [i \in 1..Len(pr.MerkleHashes) |->
                                IF pr.MerkleHashes[i] = None THEN None
                                ELSE Some(HexMarshal(pr.MerkleHashes[i][1]))]]

\* json.Unmarshal into *InclusionProof: each non-null merkle hash goes
\* through HexBytes.UnmarshalJSON on a new HexBytes, whose error fails it all.
ProofsFromJson(j) ==
  IF j.t = "null" THEN [err |-> "nil", Proofs |-> None]
  ELSE LET dec == [i \in 1..Len(j.merkle_hashes) |->
                     IF j.merkle_hashes[i] = None THEN [err |-> "nil", h |-> <<>>]
                     ELSE HexUnmarshal(j.merkle_hashes[i][1], <<>>)]
           bad == {i \in 1..Len(dec) : dec[i].err # "nil"}
       IN IF bad # {}
            THEN [err |-> dec[CHOOSE i \in bad : \A k \in bad : i <= k].err, Proofs |-> None]
            ELSE [err |-> "nil",
                  Proofs |-> Some([TransactionHashes |-> j.transaction_hashes,
                                   GeneralizedIndexes |-> j.generalized_indexes,
                                   MerkleHashes |-> [i \in 1..Len(dec) |->
                                      IF j.merkle_hashes[i] = None THEN None
                                      ELSE Some(dec[i].h)]])]

\* The object all three cases of MarshalJSON write.
BidJson(fork, sb, proofs) ==
  [message |-> MessageJson(fork, sb.Message),
   signature |-> SignatureJson(sb.Signature),
   proofs |-> ProofsJson(proofs)]

\* MarshalJSON, the file's first version: the output bytes or an error; "panic"
\* when the embedded pointer or the version's bid pointer is nil.
MarshalJSONEarlier(v) ==
  IF v.bid = None THEN [err |-> "panic", out |-> None]
  ELSE LET b == v.bid[1]
       IN IF b.Version \in Forks
            THEN IF ForkBid(b, b.Version) = None THEN [err |-> "panic", out |-> None]
                 ELSE [err |-> "nil",
                       out |-> Some(BidJson(b.Version, ForkBid(b, b.Version)[1], v.Proofs))]
            ELSE [err |-> "unsupported version", out |-> None]

\* MarshalJSON, the file's second version.
MarshalJSON(v) ==
  IF v.bid = None THEN [err |-> "panic", out |-> None]
  ELSE LET b == v.bid[1]
       IN IF b.Version = "deneb"
            THEN IF b.Deneb = None THEN [err |-> "panic", out |-> None]
                 ELSE [err |-> "nil", out |-> Some(BidJson("deneb", b.Deneb[1], v.Proofs))]
            ELSE [err |-> "unsupported version", out |-> None]

\* The first pass's read of the "version" field: absent leaves the zero
\* value, a name DataVersion.UnmarshalJSON does not know is its error.
VersionFromJson(data) ==
  IF "version" \notin DOMAIN data THEN [err |-> "nil", Version |-> ZeroVersion]
  ELSE IF data.version.v \in DataVersions
         THEN [err |-> "nil", Version |-> data.version.v]
         ELSE [err |-> "unrecognised data version", Version |-> ZeroVersion]

\* A field of a JSON object, null when the object does not have it.
Field(obj, name) == IF name \in DOMAIN obj THEN obj[name] ELSE JNull

\* UnmarshalJSON, the file's first version, on payload data with receiver v:
\* the error and the receiver afterwards. The second pass decodes "data" as
\* the fork's *SignedBuilderBid, which wants a message and a signature.
UnmarshalJSONEarlier(data, v) ==
  LET ver == VersionFromJson(data)
      prf == ProofsFromJson(Field(data, "proofs"))
      v1 == [v EXCEPT !.bid = Some(EmptyBid)]
  IN IF ver.err # "nil" THEN [err |-> ver.err, v |-> v]
     ELSE IF prf.err # "nil" THEN [err |-> prf.err, v |-> v]
     ELSE IF ver.Version \in Forks
       THEN IF "data" \notin DOMAIN data
              THEN [err |-> "nil",
                    v |-> [bid |-> Some([EmptyBid EXCEPT !.Version = ver.Version]),
                           Proofs |-> prf.Proofs]]
            ELSE IF Field(data.data, "message").t = "null"
              THEN [err |-> "message missing", v |-> v1]
            ELSE IF "signature" \notin DOMAIN data.data
              THEN [err |-> "signature missing", v |-> v1]
            ELSE [err |-> "nil",
                  v |-> [bid |-> Some(WithForkBid([EmptyBid EXCEPT !.Version = ver.Version],
                                        ver.Version,
                                        Some([Message |-> Some(data.data.message.v),
                                              Signature |-> data.data.signature.v]))),
                         Proofs |-> prf.Proofs]]
       ELSE [err |-> "unsupported version", v |-> v1]

\* What the second pass reads from "data" in the file's second version; a
\* payload without "data" leaves the zero struct.
DataFromJson(data) ==
  IF "data" \notin DOMAIN data
    THEN [err |-> "nil", Message |-> None, Signature |-> 0, Proofs |-> None]
    ELSE LET prf == ProofsFromJson(Field(data.data, "proofs"))
         IN [err |-> prf.err,
             Message |-> IF Field(data.data, "message").t = "null" THEN None
                         ELSE Some(data.data.message.v),
             Signature |-> IF "signature" \in DOMAIN data.data
                             THEN data.data.signature.v ELSE 0,
             Proofs |-> prf.Proofs]

\* The second version with a default case that falls back to the Deneb shape.
UnmarshalJSONFallback(data, v) ==
  LET ver == VersionFromJson(data)
      d == DataFromJson(data)
  IN IF ver.err # "nil" THEN [err |-> ver.err, v |-> v]
     ELSE IF d.err # "nil" THEN [err |-> d.err, v |-> v]
     ELSE [err |-> "nil",
           v |-> [bid |-> Some([EmptyBid EXCEPT
                            !.Version = "deneb",
                            !.Deneb = Some([Message |-> d.Message,
                                            Signature |-> d.Signature])]),
                  Proofs |-> d.Proofs]]

\* UnmarshalJSON, the file's second version.
UnmarshalJSON(data, v) ==
  LET ver == VersionFromJson(data)
      d == DataFromJson(data)
  IN IF ver.err # "nil" THEN [err |-> ver.err, v |-> v]
     ELSE IF ver.Version = "deneb"
       THEN IF d.err # "nil" THEN [err |-> d.err, v |-> v]
            ELSE [err |-> "nil",
                  v |-> [bid |-> Some([EmptyBid EXCEPT
                                   !.Version = ver.Version,
                                   !.Deneb = Some([Message |-> d.Message,
                                                   Signature |-> d.Signature])]),
                         Proofs |-> d.Proofs]]
       ELSE [err |-> "unsupported version", v |-> v]

\* ------------------------------------------------- transactions and codec
Slots == 1..MaxSlot
Hashes == 1..MaxTx

\* A *HexTransaction list entry: a nil pointer, bytes the codec rejects, or the
\* binary encoding of transaction id with or without its blob sidecar.
NilTx == [kind |-> "nil", id |-> 0, sidecar |-> FALSE]
BadTx == [kind |-> "bad", id |-> 0, sidecar |-> FALSE]
\* Transaction 1 is the blob transaction: it comes with or without its sidecar.
RawTxs ==
  {NilTx, BadTx} \cup [kind : {"tx"}, id : Hashes, sidecar : {FALSE}]
    \cup [kind : {"tx"}, id : {1}, sidecar : {TRUE}]

\* types.Transaction.UnmarshalBinary: the decoded transaction, or an error.
UnmarshalBinary(raw) ==
  IF raw.kind = "tx"
    THEN [err |-> FALSE, tx |-> [inner |-> raw.id, blobs |-> raw.sidecar]]
    ELSE [err |-> TRUE, tx |-> [inner |-> 0, blobs |-> FALSE]]

WithoutBlobTxSidecar(tx) == [tx EXCEPT !.blobs = FALSE]

MarshalBinary(tx) == [kind |-> "tx", id |-> tx.inner, sidecar |-> tx.blobs]

\* types.Transaction.Hash: the sidecar is not part of the hash.
Hash(tx) == tx.inner

RECURSIVE SeqsUpTo(_, _)
SeqsUpTo(S, n) ==
  IF n = 0 THEN {<<>>}
  ELSE LET shorter == SeqsUpTo(S, n - 1)
       IN shorter \cup {Append(s, x) : s \in {t \in shorter : Len(t) = n - 1}, x \in S}

TxLists == SeqsUpTo(RawTxs, MaxTxs)

\* ------------------------------------------------------------- lru.Cache
NoMap == 0   \* the nil TransactionHashMap

LruKeys(c) == {c[i].key : i \in 1..Len(c)}

LruIndex(c, k) == CHOOSE i \in 1..Len(c) : c[i].key = k

LruRemoveAt(c, i) == SubSeq(c, 1, i - 1) \o SubSeq(c, i + 1, Len(c))

\* lru.Cache.Get without the recency bookkeeping (Peek); a hit leaves the order.
LruGetNoTouch(c, k) ==
  IF k \in LruKeys(c)
    THEN [cache |-> c, value |-> c[LruIndex(c, k)].value, ok |-> TRUE]
    ELSE [cache |-> c, value |-> NoMap, ok |-> FALSE]

\* lru.Cache.Get: a hit moves the entry to the front of the eviction list.
LruGet(c, k) ==
  IF k \in LruKeys(c)
    THEN LET i == LruIndex(c, k)
         IN [cache |-> <<c[i]>> \o LruRemoveAt(c, i), value |-> c[i].value, ok |-> TRUE]
    ELSE [cache |-> c, value |-> NoMap, ok |-> FALSE]

\* lru.Cache.Add that never removes the oldest entry.
LruAddNoEvict(c, size, k, v) ==
  IF k \in LruKeys(c)
    THEN <<[key |-> k, value |-> v]>> \o LruRemoveAt(c, LruIndex(c, k))
    ELSE <<[key |-> k, value |-> v]>> \o c

\* lru.Cache.Add: an existing key gets the new value and moves to the front; a
\* new key is pushed to the front and the oldest entry is removed when the
\* list outgrows the size.
LruAdd(c, size, k, v) ==
  IF k \in LruKeys(c)
    THEN <<[key |-> k, value |-> v]>> \o LruRemoveAt(c, LruIndex(c, k))
    ELSE LET pushed == <<[key |-> k, value |-> v]>> \o c
         IN IF Len(pushed) > size THEN SubSeq(pushed, 1, size) ELSE pushed

\* lru.Cache.Values: the values from oldest to newest.
LruValues(c) == [i \in 1..Len(c) |-> c[Len(c) + 1 - i].value]

\* --------------------------------------------------------------- Go heap
EmptyMap == [h \in {} |-> NilTx]

\* make(TransactionHashMap) for a slot: the address of the new map object. The
\* address is opaque to the program; the first free one of slot, slot + MaxSlot,
\* slot + 2 * MaxSlot, ... is taken.
FreshId(hp, slot) ==
  CHOOSE i \in {slot + n * MaxSlot : n \in 0..Cardinality(DOMAIN hp)} :
    /\ i \notin DOMAIN hp
    /\ \A n \in 0..Cardinality(DOMAIN hp) :
         slot + n * MaxSlot < i => (slot + n * MaxSlot) \in DOMAIN hp

\* The garbage collector: map objects nothing refers to any more are gone.
Collect(hp, refs) == [i \in (DOMAIN hp) \cap refs |-> hp[i]]

CacheRefs(c) == {c[i].value : i \in 1..Len(c)}

\* m[k] = v on a map object.
MapStore(m, k, v) == [h \in (DOMAIN m) \cup {k} |-> IF h = k THEN v ELSE m[h]]

\* ------------------------------------------------ AddInclusionConstraints
\* One pass of the loop body over a transaction list entry, writing through
\* the map reference m the call holds.
StoreTx(hp, m, raw) ==
  IF raw.kind = "nil" THEN [heap |-> hp, result |-> "MalformedInput"]
  ELSE LET dec == UnmarshalBinary(raw)
       IN IF dec.err THEN [heap |-> hp, result |-> "DecodeError"]
          ELSE LET tx == WithoutBlobTxSidecar(dec.tx)
                   bytes == MarshalBinary(tx)
               IN IF m = NoMap
                    THEN [heap |-> hp, result |-> "panic"]   \* assignment to entry in nil map
                    ELSE [heap |-> [hp EXCEPT ![m] = MapStore(hp[m], Hash(tx), bytes)],
                          result |-> "ok"]

\* The loop over the transactions from index i on: stops at the first entry
\* that fails, keeping what the earlier entries wrote.
RECURSIVE StoreAll(_, _, _, _)
StoreAll(hp, m, txs, i) ==
  IF i > Len(txs) THEN [heap |-> hp, result |-> "ok"]
  ELSE LET step == StoreTx(hp, m, txs[i])
       IN IF step.result = "ok" THEN StoreAll(step.heap, m, txs, i + 1) ELSE step

\* The same call with the empty-list check dropped.
AddConstraintsNoEmptyCheck(c, size, hp, slot, txs) ==
  LET got == LruGet(c, slot)
      id == FreshId(hp, slot)
      c1 == IF got.ok THEN got.cache ELSE LruAdd(got.cache, size, slot, id)
      hp1 == IF got.ok THEN hp ELSE [i \in (DOMAIN hp) \cup {id} |-> IF i = id THEN EmptyMap ELSE hp[i]]
      done == StoreAll(hp1, got.value, txs, 1)
  IN [cache |-> c1, heap |-> Collect(done.heap, CacheRefs(c1)), result |-> done.result]

\* The same call looking the slot up without touching its recency.
AddConstraintsNoTouch(c, size, hp, slot, txs) ==
  IF Len(txs) = 0 THEN [cache |-> c, heap |-> hp, result |-> "ok"]
  ELSE LET got == LruGetNoTouch(c, slot)
           id == FreshId(hp, slot)
           c1 == IF got.ok THEN got.cache ELSE LruAdd(got.cache, size, slot, id)
           hp1 == IF got.ok THEN hp ELSE [i \in (DOMAIN hp) \cup {id} |-> IF i = id THEN EmptyMap ELSE hp[i]]
           done == StoreAll(hp1, got.value, txs, 1)
       IN [cache |-> c1, heap |-> Collect(done.heap, CacheRefs(c1)), result |-> done.result]

\* The whole call on cache c and heap hp: the cache and heap it leaves and
\* what the caller sees ("ok", an error, or "panic").
AddConstraints(c, size, hp, slot, txs) ==
  IF Len(txs) = 0 THEN [cache |-> c, heap |-> hp, result |-> "ok"]
  ELSE LET got == LruGet(c, slot)
           id == FreshId(hp, slot)
           c1 == IF got.ok THEN got.cache ELSE LruAdd(got.cache, size, slot, id)
           hp1 == IF got.ok THEN hp ELSE [i \in (DOMAIN hp) \cup {id} |-> IF i = id THEN EmptyMap ELSE hp[i]]
           \* m is what Get returned: the nil map when the slot was not there
           done == StoreAll(hp1, got.value, txs, 1)
       IN [cache |-> c1, heap |-> Collect(done.heap, CacheRefs(c1)), result |-> done.result]

\* FindTransactionByHash's scan of the values from position j on.
RECURSIVE FindIn(_, _, _, _)
FindIn(vals, hp, txHash, j) ==
  IF j > Len(vals) THEN [tx |-> NilTx, found |-> FALSE]
  ELSE IF txHash \in DOMAIN hp[vals[j]]
         THEN [tx |-> hp[vals[j]][txHash], found |-> TRUE]
         ELSE FindIn(vals, hp, txHash, j + 1)

\* The record of a completed call: its arguments, what it returned, and two
\* observations of its effect (was the slot cached when it started, which
\* slot it evicted, 0 for none).
NoCall == [op |-> "none", slot |-> 0, txs |-> <<>>, hash |-> 0, result |-> "ok",
           found |-> FALSE, map |-> NoMap, tx |-> NilTx,
           existed |-> FALSE, evicted |-> 0]

Evicted(c, c1) ==
  IF LruKeys(c) \subseteq LruKeys(c1) THEN 0
  ELSE CHOOSE k \in LruKeys(c) : k \notin LruKeys(c1)

Procs == 1..NProcs

\* A goroutine's frame: the call it is in (op, arguments), the position in the
\* call (pc), the locals (m, i, vals, j), the result of the call when it has
\* returned, and whether the slot stayed cached since the call looked it up.
NoFrame == [pc |-> "idle", op |-> "none", slot |-> 0, txs |-> <<>>, i |-> 1,
            m |-> NoMap, hash |-> 0, vals |-> <<>>, j |-> 1, result |-> "none",
            stable |-> TRUE]

\* NewConstraintsCache(cap) with cap >= 1.
Init ==
  /\ cap \in 1..MaxCap
  /\ constraints = <<>>
  /\ heap = [i \in {} |-> EmptyMap]
  /\ halted = FALSE
  /\ last = NoCall
  /\ frames = [p \in Procs |-> NoFrame]
  /\ hexIn = <<>>
  /\ hexH = HexPrior
  /\ hexErr = "none"
  /\ bidVariant = "later"
  /\ bidEnv = FreshEnvelope
  /\ bidWire = None
  /\ bidEncErr = "none"
  /\ bidData = None
  /\ bidOut = FreshEnvelope
  /\ bidErr = "none"

AddInclusionConstraints ==
  /\ ~halted
  /\ last = NoCall
  /\ \E slot \in Slots, txs \in TxLists :
       \E r \in {AddConstraints(constraints, cap, heap, slot, txs)} :
          /\ constraints' = r.cache
          /\ heap' = r.heap
          \* a panic unwinds to the caller, which recovers it or goes down with it
          /\ halted' \in (IF r.result = "panic" THEN BOOLEAN ELSE {FALSE})
          /\ last' = [NoCall EXCEPT !.op = "add", !.slot = slot, !.txs = txs,
                                    !.result = r.result,
                                    !.existed = (slot \in LruKeys(constraints)),
                                    !.evicted = Evicted(constraints, r.cache)]
  /\ UNCHANGED <<cap, frames, hexVars, bidVars>>

Get ==
  /\ ~halted
  /\ last = NoCall
  /\ \E slot \in Slots :
       \E r \in {LruGet(constraints, slot)} :
          /\ constraints' = r.cache
          /\ last' = [NoCall EXCEPT !.op = "get", !.slot = slot, !.found = r.ok,
                                    !.map = r.value,
                                    !.existed = (slot \in LruKeys(constraints))]
  /\ UNCHANGED <<cap, heap, halted, frames, hexVars, bidVars>>

FindTransactionByHash ==
  /\ ~halted
  /\ last = NoCall
  /\ \E txHash \in Hashes :
       \E r \in {FindIn(LruValues(constraints), heap, txHash, 1)} :
          last' = [NoCall EXCEPT !.op = "find", !.hash = txHash, !.found = r.found,
                                 !.tx = r.tx]
  /\ UNCHANGED <<cap, constraints, heap, halted, frames, hexVars, bidVars>>

\* The caller has taken the result of its call and is free to call again.
TakeResult ==
  /\ ~halted
  /\ last # NoCall
  /\ last' = NoCall
  /\ UNCHANGED <<cap, constraints, heap, halted, frames, hexVars, bidVars>>

Next ==
  \/ AddInclusionConstraints
  \/ Get
  \/ FindTransactionByHash
  \/ TakeResult

vars == <<cap, constraints, heap, halted, last, frames, hexVars, bidVars>>

Spec == Init /\ [][Next]_vars

\* ------------------------------------------------------ cache: the claims
Normalized(raw) == MarshalBinary(WithoutBlobTxSidecar(UnmarshalBinary(raw).tx))

RawHash(raw) == Hash(UnmarshalBinary(raw).tx)

AllDecodable(txs) == \A i \in 1..Len(txs) : txs[i].kind = "tx"

\* What Get(slot) would hand back now: the contents of the slot's map.
MapOf(slot) == heap[LruGet(constraints, slot).value]

\* C1: a call with a non-empty list of decodable transactions returns success,
\* whether the slot was cached or not, and then Get(slot) finds a map binding
\* every input hash to its normalized bytes and FindTransactionByHash finds
\* that entry.
C1_AddThenRetrievable ==
  (last.op = "add" /\ Len(last.txs) > 0 /\ AllDecodable(last.txs)) =>
    /\ last.result = "ok"
    /\ LruGet(constraints, last.slot).ok
    /\ \A i \in 1..Len(last.txs) :
         LET h == RawHash(last.txs[i])
             f == FindIn(LruValues(constraints), heap, h, 1)
         IN /\ h \in DOMAIN MapOf(last.slot)
            /\ MapOf(last.slot)[h] = Normalized(last.txs[i])
            /\ f.found
            /\ f.tx = Normalized(last.txs[i])

\* C2: AddInclusionConstraints(slot, [nil]) on a slot that is not cached
\* returns MalformedInput and leaves the set of cached slots as it was.
C2_NilCreatesNoEntry ==
  [][(last'.op = "add" /\ last'.txs = <<NilTx>> /\ last'.slot \notin LruKeys(constraints)) =>
       /\ last'.result = "MalformedInput"
       /\ LruKeys(constraints') = LruKeys(constraints)]_vars

\* C5: the cache never holds more than cap slots; adding a new slot to a full
\* cache leaves exactly cap slots, and the one dropped is the least recently
\* used one.
C5_EvictionBound ==
  /\ Len(constraints) <= cap
  /\ [][/\ Len(constraints') <= cap
        /\ (last'.op = "add" /\ last'.txs # <<>> /\ Len(constraints) = cap
              /\ last'.slot \notin LruKeys(constraints)) =>
             /\ Len(constraints') = cap
             /\ LruKeys(constraints') =
                  (LruKeys(constraints) \ {constraints[Len(constraints)].key})
                    \cup {last'.slot}]_vars

C5_Witness ==
  /\ cap >= 2
  /\ last.op = "add"
  /\ last.evicted # 0
  /\ Len(constraints) = cap

\* C6: a call with an empty list returns no error and leaves the cached
\* slots, their maps and the recency order as they were.
C6_EmptyIsNoOp ==
  [][(last'.op = "add" /\ last'.txs = <<>>) =>
       /\ last'.result = "ok"
       /\ constraints' = constraints
       /\ heap' = heap
       /\ halted' = halted]_vars

C6_Witness ==
  /\ last.op = "add"
  /\ last.txs = <<>>
  /\ last.slot \in LruKeys(constraints)
  /\ constraints[1].key # last.slot
  /\ heap[constraints[1].value] # EmptyMap

\* With capacity >= 2, a call that evicts a slot evicts another one than the
\* most recently used slot of the state it starts in.
EvictsNotMostRecent ==
  (cap >= 2 /\ last'.evicted # 0) => last'.evicted # constraints[1].key

\* C9: Get leaves the cached slots and their maps as they were and reports an
\* uncached slot as not found; a hit makes the slot the most recently used
\* one, so with capacity >= 2 the next call that evicts evicts another slot.
C9_GetTouchesOnly ==
  [][/\ last'.op = "get" =>
          /\ LruKeys(constraints') = LruKeys(constraints)
          /\ \A k \in LruKeys(constraints) :
               LruGet(constraints', k).value = LruGet(constraints, k).value
          /\ heap' = heap
          /\ last'.found = (last'.slot \in LruKeys(constraints))
          /\ last'.found => constraints'[1].key = last'.slot
     /\ EvictsNotMostRecent]_vars

C9_Witness ==
  /\ cap >= 2
  /\ last.op = "get"
  /\ last.found
  /\ Len(constraints) = cap
  /\ constraints[1].key = last.slot
  /\ heap[last.map] # EmptyMap

\* C10: a call with a non-empty list on a cached slot makes the slot the most
\* recently used one, also when the call fails on a nil or undecodable entry;
\* with capacity >= 2 the next call that evicts evicts another slot.
C10_WriteTouches ==
  [][/\ (last'.op = "add" /\ last'.txs # <<>> /\ last'.slot \in LruKeys(constraints)) =>
          /\ constraints'[1].key = last'.slot
          /\ LruKeys(constraints') = LruKeys(constraints)
     /\ EvictsNotMostRecent]_vars

C10_Witness ==
  /\ cap >= 2
  /\ last.op = "add"
  /\ last.existed
  /\ last.result \in {"MalformedInput", "DecodeError"}
  /\ Len(constraints) = cap
  /\ constraints[1].key = last.slot

\* ------------------------------------- the cache under concurrent callers
\* Each goroutine runs one call at a time. The lru.Cache methods (Get, Add,
\* Values) run under the cache's own lock and are single steps; the map
\* accesses of AddInclusionConstraints and FindTransactionByHash happen
\* outside that lock and are steps of their own.
ConcSlots == 1..MaxConcSlot

ConcRawTxs == {NilTx} \cup [kind : {"tx"}, id : Hashes, sidecar : {FALSE}]

ConcTxLists == SeqsUpTo(ConcRawTxs, MaxConcTxs)

SetFrame(p, f) == [frames EXCEPT ![p] = f]

\* The call returns: the locals are gone, the result stays on record.
Return(f, result) ==
  [f EXCEPT !.pc = "idle", !.result = result, !.m = NoMap, !.vals = <<>>,
            !.i = 1, !.j = 1]

FrameRefs(f) ==
  (IF f.m = NoMap THEN {} ELSE {f.m}) \cup {f.vals[k] : k \in f.j..Len(f.vals)}

AllRefs(c, fr) == CacheRefs(c) \cup UNION {FrameRefs(fr[q]) : q \in Procs}

\* The next step of p stores into map object id (the loop body's m[hash] = &hex).
WritesMap(p, id) ==
  /\ frames[p].pc = "add_loop"
  /\ frames[p].m = id
  /\ id # NoMap
  /\ frames[p].txs[frames[p].i].kind = "tx"

\* The next step of p reads map object id (hashToTx[txHash]).
ReadsMap(p, id) ==
  /\ frames[p].pc = "find_scan"
  /\ frames[p].vals[frames[p].j] = id

\* Two goroutines are about to access the same map object with no lock held
\* and no ordering between them, one of them writing.
MapRace ==
  \E p, q \in Procs : \E id \in DOMAIN heap :
    /\ p # q
    /\ WritesMap(p, id)
    /\ WritesMap(q, id) \/ ReadsMap(q, id)

\* Entry of AddInclusionConstraints with the empty-list return.
CallAdd(p, slot, txs) ==
  /\ ~halted
  /\ frames[p].pc = "idle"
  /\ LET f == [NoFrame EXCEPT !.op = "add", !.slot = slot, !.txs = txs]
     IN frames' = SetFrame(p, IF Len(txs) = 0 THEN Return(f, "ok")
                              ELSE [f EXCEPT !.pc = "add_get"])
  /\ UNCHANGED <<cap, constraints, heap, halted, last, hexVars, bidVars>>

\* m, exists := c.constraints.Get(slot)
AddGet(p) ==
  /\ ~halted
  /\ frames[p].pc = "add_get"
  /\ LET r == LruGet(constraints, frames[p].slot)
     IN /\ constraints' = r.cache
        /\ frames' = SetFrame(p, [frames[p] EXCEPT
                        !.m = r.value,
                        !.pc = IF r.ok THEN "add_loop" ELSE "add_add"])
  /\ UNCHANGED <<cap, heap, halted, last, hexVars, bidVars>>

\* c.constraints.Add(slot, make(TransactionHashMap))
AddAdd(p) ==
  /\ ~halted
  /\ frames[p].pc = "add_add"
  /\ LET slot == frames[p].slot
         id == FreshId(heap, slot)
         c1 == LruAdd(constraints, cap, slot, id)
         ev == Evicted(constraints, c1)
         hp1 == [i \in (DOMAIN heap) \cup {id} |-> IF i = id THEN EmptyMap ELSE heap[i]]
         fr1 == [q \in Procs |->
                   IF q = p THEN [frames[p] EXCEPT !.pc = "add_loop"]
                   ELSE IF ev # 0 /\ frames[q].op = "add" /\ frames[q].slot = ev
                          THEN [frames[q] EXCEPT !.stable = FALSE]
                          ELSE frames[q]]
     IN /\ constraints' = c1
        /\ frames' = fr1
        /\ heap' = Collect(hp1, AllRefs(c1, fr1))
  /\ UNCHANGED <<cap, halted, last, hexVars, bidVars>>

\* One pass of the loop body.
AddLoop(p) ==
  /\ ~halted
  /\ frames[p].pc = "add_loop"
  /\ LET f == frames[p]
         step == StoreTx(heap, f.m, f.txs[f.i])
         fr1 == SetFrame(p, IF step.result # "ok" \/ f.i = Len(f.txs)
                              THEN Return(f, step.result)
                              ELSE [f EXCEPT !.i = f.i + 1])
     IN /\ frames' = fr1
        /\ heap' = Collect(step.heap, AllRefs(constraints, fr1))
        /\ \E recovered \in BOOLEAN : halted' = (step.result = "panic" /\ ~recovered)
  /\ UNCHANGED <<cap, constraints, last, hexVars, bidVars>>

CallGet(p, slot) ==
  /\ ~halted
  /\ frames[p].pc = "idle"
  /\ LET r == LruGet(constraints, slot)
     IN /\ constraints' = r.cache
        /\ frames' = SetFrame(p, Return([NoFrame EXCEPT !.op = "get", !.slot = slot],
                                        IF r.ok THEN "found" ELSE "notfound"))
  /\ UNCHANGED <<cap, heap, halted, last, hexVars, bidVars>>

\* Entry of FindTransactionByHash: c.constraints.Values()
CallFind(p, txHash) ==
  /\ ~halted
  /\ frames[p].pc = "idle"
  /\ LET f == [NoFrame EXCEPT !.op = "find", !.hash = txHash,
                              !.vals = LruValues(constraints)]
     IN frames' = SetFrame(p, IF Len(f.vals) = 0 THEN Return(f, "notfound")
                              ELSE [f EXCEPT !.pc = "find_scan"])
  /\ UNCHANGED <<cap, constraints, heap, halted, last, hexVars, bidVars>>

\* One pass of FindTransactionByHash's loop: hashToTx[txHash]
FindScan(p) ==
  /\ ~halted
  /\ frames[p].pc = "find_scan"
  /\ LET f == frames[p]
         hit == f.hash \in DOMAIN heap[f.vals[f.j]]
         fr1 == SetFrame(p, IF hit THEN Return(f, "found")
                            ELSE IF f.j = Len(f.vals) THEN Return(f, "notfound")
                            ELSE [f EXCEPT !.j = f.j + 1])
     IN /\ frames' = fr1
        /\ heap' = Collect(heap, AllRefs(constraints, fr1))
  /\ UNCHANGED <<cap, constraints, halted, last, hexVars, bidVars>>

\* A racing map access is undefined: besides any interleaving of the two
\* accesses, the runtime may stop the process ("concurrent map read and map
\* write", "concurrent map writes").
RaceFault ==
  /\ ~halted
  /\ MapRace
  /\ halted' = TRUE
  /\ UNCHANGED <<cap, constraints, heap, last, frames, hexVars, bidVars>>

NextConc ==
  \/ \E p \in Procs, slot \in ConcSlots, txs \in ConcTxLists : CallAdd(p, slot, txs)
  \/ \E p \in Procs : AddGet(p)
  \/ \E p \in Procs : AddAdd(p)
  \/ \E p \in Procs : AddLoop(p)
  \/ \E p \in Procs, slot \in ConcSlots : CallGet(p, slot)
  \/ \E p \in Procs, txHash \in Hashes : CallFind(p, txHash)
  \/ \E p \in Procs : FindScan(p)
  \/ RaceFault

SpecConc == Init /\ [][NextConc]_vars

AddedOk(p) ==
  /\ frames[p].pc = "idle"
  /\ frames[p].op = "add"
  /\ frames[p].txs # <<>>
  /\ frames[p].result = "ok"
  /\ frames[p].stable

\* Two calls for one slot that both returned success, the slot cached ever
\* since: the transactions of both are in the map Get(slot) returns.
BothAddsVisible ==
  \A p, q \in Procs :
    (p # q /\ AddedOk(p) /\ AddedOk(q) /\ frames[p].slot = frames[q].slot
       /\ frames[p].slot \in LruKeys(constraints)) =>
      \A r \in {p, q} : \A i \in 1..Len(frames[r].txs) :
        RawHash(frames[r].txs[i]) \in DOMAIN MapOf(frames[p].slot)

\* C4: every access to the slot->map structure, to the per-slot maps and to
\* the recency order happens under one mutual exclusion: no map is accessed
\* by one call while another call writes it, and two calls for one slot that
\* both returned success, the slot never evicted, both show in Get(slot).
C4_Atomic ==
  /\ ~MapRace
  /\ BothAddsVisible

\* ------------------------------------------------ HexBytes.UnmarshalJSON
HexInputs == SeqsUpTo(HexAlphabet, MaxHexLen)

InitHex ==
  /\ cap = 1
  /\ constraints = <<>>
  /\ heap = [i \in {} |-> EmptyMap]
  /\ halted = FALSE
  /\ last = NoCall
  /\ frames = [p \in Procs |-> NoFrame]
  /\ hexIn \in HexInputs
  /\ hexH = HexPrior
  /\ hexErr = "none"
  /\ bidVariant = "later"
  /\ bidEnv = FreshEnvelope
  /\ bidWire = None
  /\ bidEncErr = "none"
  /\ bidData = None
  /\ bidOut = FreshEnvelope
  /\ bidErr = "none"

HexBytesUnmarshalJSON ==
  /\ hexErr = "none"
  /\ LET r == HexUnmarshal(hexIn, hexH)
     IN /\ hexErr' = r.err
        /\ hexH' = r.h
  /\ UNCHANGED <<cap, constraints, heap, halted, last, frames, hexIn, bidVars>>

NextHex == HexBytesUnmarshalJSON

SpecHex == InitHex /\ [][NextHex]_vars

StartsQuote0x(input) ==
  Len(input) >= 3 /\ input[1] = Quote /\ input[2] = "0" /\ input[3] = "x"

EndsQuote(input) == Len(input) >= 1 /\ input[Len(input)] = Quote

\* C8: decoding fails with an invalid-hex error and leaves *h alone for the
\* empty input, for an input that does not start with a quote and 0x, and for
\* an input that does not end with a quote; decoding "0x" succeeds and yields
\* zero bytes.
C8_HexBoundaries ==
  hexErr # "none" =>
    /\ (hexIn = <<>> \/ ~StartsQuote0x(hexIn) \/ ~EndsQuote(hexIn)) =>
         /\ hexErr \in {"input missing", "invalid prefix", "invalid suffix"}
         /\ hexH = HexPrior
    /\ hexIn = <<Quote, "0", "x", Quote>> => (hexErr = "nil" /\ hexH = <<>>)

C8_Witness ==
  /\ hexErr = "invalid suffix"
  /\ StartsQuote0x(hexIn)
  /\ Len(hexIn) > 3
  /\ hexH = HexPrior

\* ------------------------- VersionedSignedBuilderBidWithProofs: the codec
SignedBids == [Message : {None} \cup {Some(m) : m \in 1..MaxMsg}, Signature : 0..MaxSig]

Bids ==
  {[EmptyBid EXCEPT !.Version = ver] : ver \in DataVersions \ Forks}
    \cup {WithForkBid([EmptyBid EXCEPT !.Version = f], f, sb) :
            f \in Forks, sb \in {None} \cup {Some(x) : x \in SignedBids}}

\* Merkle hashes: a nil pointer, the empty array, one byte.
MerkleLists == SeqsUpTo({None, Some(<<>>), Some(<<10>>)}, MaxMerkle)

ProofValues == [TransactionHashes : {<<>>, <<1>>},
                GeneralizedIndexes : {<<>>, <<2>>},
                MerkleHashes : MerkleLists]

Envelopes == [bid : {None} \cup {Some(b) : b \in Bids},
              Proofs : {None} \cup {Some(pr) : pr \in ProofValues}]

\* Payloads a peer may send, built from an envelope's parts: the version
\* field absent or any name, and the bid object as MarshalJSON writes it
\* ("flat"), under "data" ("nested"), or under "data" with the proofs beside
\* it ("split").
VersionFields == {None} \cup {Some(ver) : ver \in DataVersions \cup {"bogus"}}

Shapes == {"flat", "nested", "split"}

EnvSigned(env) ==
  IF env.bid # None /\ env.bid[1].Version \in Forks
       /\ ForkBid(env.bid[1], env.bid[1].Version) # None
    THEN ForkBid(env.bid[1], env.bid[1].Version)[1]
    ELSE [Message |-> None, Signature |-> 0]

PayloadFork(pv, env) ==
  IF pv # None /\ pv[1] \in Forks THEN pv[1]
  ELSE IF env.bid # None /\ env.bid[1].Version \in Forks THEN env.bid[1].Version
  ELSE "deneb"

BuildPayload(pv, shape, env) ==
  LET sb == EnvSigned(env)
      full == BidJson(PayloadFork(pv, env), sb, env.Proofs)
      bare == [message |-> full.message, signature |-> full.signature]
      ver == [t |-> "version", v |-> pv[1]]
  IN IF shape = "flat"
       THEN IF pv = None THEN full
            ELSE [version |-> ver, message |-> full.message,
                  signature |-> full.signature, proofs |-> full.proofs]
     ELSE IF shape = "nested"
       THEN IF pv = None THEN [data |-> full] ELSE [version |-> ver, data |-> full]
     ELSE IF pv = None THEN [data |-> bare, proofs |-> full.proofs]
          ELSE [version |-> ver, data |-> bare, proofs |-> full.proofs]

Encode(variant, v) ==
  IF variant = "earlier" THEN MarshalJSONEarlier(v) ELSE MarshalJSON(v)

Decode(variant, data, v) ==
  IF variant = "earlier" THEN UnmarshalJSONEarlier(data, v) ELSE UnmarshalJSON(data, v)

InitBid ==
  /\ cap = 1
  /\ constraints = <<>>
  /\ heap = [i \in {} |-> EmptyMap]
  /\ halted = FALSE
  /\ last = NoCall
  /\ frames = [p \in Procs |-> NoFrame]
  /\ hexIn = <<>>
  /\ hexH = HexPrior
  /\ hexErr = "none"
  /\ bidVariant \in {"earlier", "later"}
  /\ bidEnv \in Envelopes
  /\ bidWire = None
  /\ bidEncErr = "none"
  /\ bidData = None
  /\ bidOut = FreshEnvelope
  /\ bidErr = "none"

\* json.Marshal(&bidEnv)
BidMarshalJSON ==
  /\ bidEncErr = "none"
  /\ LET r == Encode(bidVariant, bidEnv)
     IN /\ bidEncErr' = r.err
        /\ bidWire' = r.out
  /\ UNCHANGED <<cap, constraints, heap, halted, last, frames, hexVars,
                 bidVariant, bidEnv, bidData, bidOut, bidErr>>

DecodeInto(data) ==
  /\ LET r == Decode(bidVariant, data, bidOut)
     IN /\ bidErr' = r.err
        /\ bidOut' = r.v
        /\ bidData' = Some(data)
  /\ UNCHANGED <<cap, constraints, heap, halted, last, frames, hexVars,
                 bidVariant, bidEnv, bidWire, bidEncErr>>

\* json.Unmarshal of the bytes MarshalJSON wrote, into a fresh envelope.
BidUnmarshalEncoded ==
  /\ bidEncErr = "nil"
  /\ bidErr = "none"
  /\ DecodeInto(bidWire[1])

\* json.Unmarshal of a payload from the wire, into a fresh envelope.
BidUnmarshalJSON(pv, shape) ==
  /\ bidErr = "none"
  /\ DecodeInto(BuildPayload(pv, shape, bidEnv))

NextBid ==
  \/ BidMarshalJSON
  \/ BidUnmarshalEncoded
  \/ \E pv \in VersionFields, shape \in Shapes : BidUnmarshalJSON(pv, shape)

SpecBid == InitBid /\ [][NextBid]_vars

\* C3: decoding what MarshalJSON wrote succeeds and gives back the envelope,
\* for every supported version, with and without proofs.
C3_EnvelopeRoundTrip ==
  (bidEncErr = "nil" /\ bidErr # "none" /\ bidData = bidWire) =>
    /\ bidErr = "nil"
    /\ bidOut = bidEnv

PayloadVersion(data) ==
  IF "version" \in DOMAIN data THEN data.version.v ELSE ZeroVersion

\* The first pass got through: the version field, and in the file's first
\* version the proofs read with it, decoded.
FirstPassOk ==
  /\ VersionFromJson(bidData[1]).err = "nil"
  /\ bidVariant = "earlier" => ProofsFromJson(Field(bidData[1], "proofs")).err = "nil"

NoBidDecoded ==
  /\ bidOut.Proofs = None
  /\ bidOut.bid = None \/ bidOut.bid = Some(EmptyBid)

====
